---- MODULE Spec2Model ----
(***************************************************************************)
(* Turnstile-Solver: the worker-pool task orchestrator of api_solver.py    *)
(* (TurnstileAPIServer) and the probe loop of the standalone solvers       *)
(* (sync_solver.py / async_solver.py, _get_turnstile_response).            *)
(*                                                                         *)
(* Granularity.  A coroutine gives up control only at an await that        *)
(* suspends, so an action is the code that runs from one suspension to     *)
(* the next.  Each await of an iteration of the probe loop is such a       *)
(* suspension: the unit's position inside the iteration is in awaiting,    *)
(* and what the engine answers to the call is chosen by \E.                *)
(* asyncio.Queue.get()/put() are modelled by what CPython's                *)
(* asyncio.Queue does: get() on an empty queue appends a future to the     *)
(* getters and suspends; put() appends the item and wakes the first        *)
(* getter, whose resumption is scheduled on the event loop and re-checks   *)
(* the queue.  The event loop runs the handles scheduled by create_task    *)
(* and by a future's completion in FIFO order (variable ready); a unit     *)
(* suspended on an engine call resumes whenever the engine answers.        *)
(*                                                                         *)
(* A ledger entry {"value": v, "elapsed_time": e} is held in two maps, its  *)
(* value in results and its elapsed_time in elapsed_time.  The clock        *)
(* (time.time()) counts milliseconds, the precision round(..., 3) keeps;    *)
(* it advances only in the specification that is about time.                *)
(*                                                                         *)
(* results.json is modelled by what is in it (disk): the JSON text that     *)
(* json.dump writes and json.load parses, or a file that cannot be opened,  *)
(* decoded or parsed.                                                       *)
(*                                                                         *)
(* solve() of the standalone solvers is followed call by call: what it has *)
(* started and not closed (opened), the exception that is propagating      *)
(* (exc), the local result and what the caller gets (returned).  The route *)
(* handlers registered on the page of each pool slot are kept in routes.   *)
(***************************************************************************)
EXTENDS Integers, Sequences, FiniteSets, TLC

\* ---------------------------------------------------------------- bounds
MaxThreads == 2      \* largest pool size N (--thread) explored
MaxTasks == 3        \* ids are 1..MaxTasks; valid submits of Spec
MaxApiTasks == 2     \* valid submits of ApiSpec
MaxTraced == 2       \* valid submits of ProtocolSpec
MaxStoreTasks == 2   \* valid submits of StoreSpec
MaxCrashes == 1      \* times the process ends and is started again (StoreSpec)
MaxClockTasks == 2   \* valid submits of ClockSpec
MaxClock == 2        \* last instant of the clock (ClockSpec)
MaxStalls == 1       \* iterations a page leaves without a value, N > 1

\* ------------------------------------------------------ program constants
MaxAttempts == 10    \* for attempt in range(10) / max_attempts: int = 10

Tasks == 1..MaxTasks

NULL == "<None>"                          \* Python None
NOT_READY == "CAPTCHA_NOT_READY"
CAPTCHA_FAIL == "CAPTCHA_FAIL"
TOKEN == "0.tok"

\* A ledger entry: absent key, a bare string, or a dict {"value": v, ...}.
Absent == [tag |-> "absent", value |-> NULL]
Str(s) == [tag |-> "str", value |-> s]
Dict(v) == [tag |-> "dict", value |-> v]

\* Values the query parameters url / sitekey of a request can take.
ParamValues == {NULL, "", "x"}
\* Values element.get_attribute("value") can return.
AttrValues == {TOKEN, "", NULL}
\* Ids a poll can carry: a minted id, an id never minted, or no id at all.
UnknownId == MaxTasks + 1
NoId == MaxTasks + 2
PollIds == Tasks \cup {UnknownId, NoId}

VARIABLES
    thread_count,   \* self.thread_count (N)
    phase,          \* "startup" | "serving" | "failed" (before_serving hook)
    launched,       \* loop index i of _initialize_browser
    browser_pool,   \* asyncio.Queue items: sequence of slot indices
    getters,        \* asyncio.Queue._getters: units suspended in get()
    ready,          \* event-loop handles from create_task / future wake-up
    results,        \* self.results: task id -> ledger entry
    disk,           \* contents of results.json
    nextId,         \* next fresh id uuid4 yields (ids are 1..MaxTasks)
    pc,             \* each unit's position in _solve_turnstile
    slot,           \* the slot index a unit holds (0: none)
    attempt,        \* loop variable attempt of a running unit
    awaiting,       \* the call of the loop a running unit is suspended in
    invisible,      \* the invisible argument each unit was created with
    resp,           \* last HTTP request served and its response
    now,            \* time.time()
    start_time,     \* the local start_time of a running unit
    elapsed_time,   \* the "elapsed_time" of each ledger entry that is a dict
    crashes,        \* times the process has ended so far
    routes,         \* per slot, the units whose page.route handler is on its page
    \* the environment of a run
    quota,          \* valid submits the clients still make
    env,            \* what the engine and the file system can do in this run
    \* _get_turnstile_response of the standalone solvers
    g_pc,           \* "off" | "loop" | "return" | "raise"
    g_awaiting,     \* the call of the loop that has not returned yet
    g_max,          \* max_attempts
    g_invisible,    \* invisible
    g_attempts,     \* attempts
    g_ret,          \* the value returned
    g_probes,       \* eval_on_selector calls issued
    g_clicks,       \* page.click calls issued
    g_empties,      \* probes that returned ""
    g_fault,        \* an engine call raised or found no element
    \* solve() of the standalone solvers
    flavour,        \* "sync" (TurnstileSolver) | "async" (AsyncTurnstileSolver)
    browser_type,   \* self.browser_type
    s_pc,           \* position in solve()
    opened,         \* what solve() has started and not closed
    exc,            \* the exception that is propagating, if any
    result,         \* the local result, if bound
    returned,       \* how solve() ended: what it returned or raised
    original,       \* the first exception raised in the call (history)
    \* history, read by the properties only
    puts,           \* number of put() calls the unit has made
    putOwn,         \* every item the unit put is the slot it held
    writes,         \* number of terminal writes to the unit's ledger entry
    probes,         \* eval_on_selector calls issued (traced runs)
    clicks,         \* page.click calls issued (traced runs)
    empties,        \* probes that returned "" (traced runs)
    raised,         \* an engine call in the loop raised or found no element
    arrival,        \* units that called get() and are not served, in call order
    entered,        \* the instant at which the unit called get()
    resetFailed     \* a call of the unit's reset raised (traced runs)

vars == <<thread_count, phase, launched, browser_pool, getters, ready, results,
          disk, nextId, pc, slot, attempt, invisible, resp, quota, env, puts,
          putOwn, writes, probes, clicks, empties, raised, arrival, g_pc, g_max,
          g_invisible, g_attempts, g_ret, g_probes, g_clicks, g_empties, g_fault,
          now, start_time, elapsed_time, crashes, entered, resetFailed,
          flavour, browser_type, s_pc, opened, exc, result, returned, original,
          routes, awaiting, g_awaiting>>

solver == <<g_pc, g_awaiting, g_max, g_invisible, g_attempts, g_ret, g_probes,
            g_clicks, g_empties, g_fault>>
solving == <<flavour, browser_type, s_pc, opened, exc, result, returned, original>>
others == <<thread_count, env, solver, solving, now, crashes, routes>>
frame == <<others, awaiting>>
timing == <<start_time, elapsed_time, entered>>
count == <<probes, clicks, empties, raised, resetFailed>>
hist == <<puts, putOwn, writes, probes, clicks, empties, raised, arrival, resetFailed>>

NoResp == [op |-> "none", url |-> NULL, sitekey |-> NULL, id |-> NoId,
           code |-> 0, body |-> Absent, task_id |-> NoId]

Ledger0 == [t \in Tasks |-> Absent]
NoElapsed == [t \in Tasks |-> 0]

\* JSON text, by the value it denotes: null or a string, and for a member of
\* the top-level object: no such key, a string, or an object with the
\* members "value" and "elapsed_time".
JNull == [j |-> "null", s |-> ""]
JString(s) == [j |-> "string", s |-> s]
JAbsent == [j |-> "absent", s |-> "", value |-> JNull, elapsed_time |-> 0]
JEntryString(s) == [j |-> "string", s |-> s, value |-> JNull, elapsed_time |-> 0]
JObject(v, e) == [j |-> "object", s |-> "", value |-> v, elapsed_time |-> e]
NoData == [t \in Tasks |-> JAbsent]

\* What results.json can be:
\*   missing      os.path.exists is false
\*   unreadable   open() raises an OSError (IOError)
\*   undecodable  the bytes are not text in the encoding open() uses
\*   truncated    text that is not valid JSON (an empty or cut-off file)
\*   not_a_map    valid JSON whose top level is not an object ([], null, 5)
\*   valid        a JSON object, one member per task id
StoreStates == {"missing", "unreadable", "undecodable", "truncated", "not_a_map",
                "valid"}
File(st, data) == [state |-> st, data |-> data]

\* An environment: whether the engine counts the calls made on it, the
\* values get_attribute("value") can return, the outcomes of a save, and
\* the iterations of a probe loop the page can leave without a value.
Env(tr, attrs, saves, n) ==
    [traced |-> tr, attrs |-> attrs, saves |-> saves, stalls |-> n]

\* The stalls explored with a pool of n pages: every one a loop can meet
\* when units run one at a time, MaxStalls when they run side by side.
Stalls(n) == IF n = 1 THEN MaxAttempts ELSE MaxStalls

\* Pages on which page.route has not been called.
NoRoutes == [s \in 1..MaxThreads |-> <<>>]

\* The variables of a process that has no ledger yet and has made no step.
Fresh ==
    /\ launched = 0
    /\ browser_pool = <<>>
    /\ getters = <<>>
    /\ ready = <<>>
    /\ results = Ledger0
    /\ elapsed_time = NoElapsed
    /\ nextId = 1
    /\ now = 0
    /\ crashes = 0
    /\ pc = [t \in Tasks |-> "none"]
    /\ slot = [t \in Tasks |-> 0]
    /\ attempt = [t \in Tasks |-> 0]
    /\ awaiting = [t \in Tasks |-> "none"]
    /\ invisible = [t \in Tasks |-> FALSE]
    /\ resp = NoResp
    /\ puts = [t \in Tasks |-> 0]
    /\ putOwn = [t \in Tasks |-> TRUE]
    /\ writes = [t \in Tasks |-> 0]
    /\ probes = [t \in Tasks |-> 0]
    /\ clicks = [t \in Tasks |-> 0]
    /\ empties = [t \in Tasks |-> 0]
    /\ raised = [t \in Tasks |-> FALSE]
    /\ arrival = <<>>
    /\ start_time = [t \in Tasks |-> 0]
    /\ entered = [t \in Tasks |-> 0]
    /\ resetFailed = [t \in Tasks |-> FALSE]
    /\ routes = NoRoutes

\* The server's variables after TurnstileAPIServer.__init__ with no
\* results.json, but for phase.
Server0 ==
    /\ Fresh
    /\ disk = File("missing", NoData)

\* No call of _get_turnstile_response is under way.
SolverOff ==
    /\ g_pc = "off"
    /\ g_awaiting = "none"
    /\ g_max = 0
    /\ g_invisible = FALSE
    /\ g_attempts = 0
    /\ g_ret = NULL
    /\ g_probes = 0
    /\ g_clicks = 0
    /\ g_empties = 0
    /\ g_fault = FALSE

\* An exception's message; no exception.  UNBOUND is the message of the
\* UnboundLocalError python raises on a read of the local result before
\* any assignment to it.
NoExc == "<no exception>"
UNBOUND == "cannot access local variable 'result' where it is not associated with a value"

\* A local result that no assignment has bound yet.
Unbound == [status |-> "<unbound>", turnstile_value |-> NULL, reason |-> NULL]

\* solve() has not ended.
Running == [kind |-> "running", value |-> Unbound, message |-> NoExc]

\* No call of solve() is under way.
SolveOff ==
    /\ flavour = "sync"
    /\ browser_type = "chromium"
    /\ s_pc = "off"
    /\ opened = {}
    /\ exc = NoExc
    /\ result = Unbound
    /\ returned = Running
    /\ original = NoExc

\* The server starts with --thread n, for a run in which the clients make
\* q valid submits in environment e.
Start(n, q, e) ==
    /\ thread_count = n
    /\ quota = q
    /\ env = e
    /\ phase = "startup"
    /\ Server0
    /\ SolverOff
    /\ SolveOff


\* ------------------------------------------------------------ the ledger
\* A check for None only: the empty string passes.
IsNone(v) == v = NULL

\* `not v` for a query parameter (None or the empty string).
Falsy(v) == v \in {NULL, ""}

\* self.results[task_id] = "CAPTCHA_NOT_READY"
Create(res, id) == [res EXCEPT ![id] = Str(NOT_READY)]

\* self.results[task_id] = {"value": value, "elapsed_time": ...}
Record(res, id, v) == [res EXCEPT ![id] = Dict(v)]

\* The check of line 224 left out: CAPTCHA_FAIL recorded after every loop.
PostLoopUnchecked(res, id) == Record(res, id, CAPTCHA_FAIL)

\* No check after the loop: the entry stays as the loop left it.
PostLoopSkipped(res, id) == res

\* if self.results.get(task_id) == "CAPTCHA_NOT_READY": record CAPTCHA_FAIL
PostLoop(res, id) ==
    IF res[id] = Str(NOT_READY) THEN Record(res, id, CAPTCHA_FAIL) ELSE res

\* 1 if the entry of id differs between two ledgers (a write), else 0.
Written(before, after, id) == IF before[id] # after[id] THEN 1 ELSE 0

\* round(time.time() - start_time, 3), the clock counting milliseconds.
Elapsed(t0, t1) == t1 - t0

\* json.dump of a value None as the text "None" (str(value)).
DumpValueStr(v) == JString(IF v = NULL THEN "None" ELSE v)

\* json.dump / json.load of the member "value": None is null, a str a string.
DumpValue(v) == IF v = NULL THEN JNull ELSE JString(v)
LoadValue(jv) == IF jv.j = "null" THEN NULL ELSE jv.s

\* json.dump / json.load of one ledger entry.
DumpEntry(e, el) ==
    CASE e.tag = "absent" -> JAbsent
      [] e.tag = "str" -> JEntryString(e.value)
      [] e.tag = "dict" -> JObject(DumpValue(e.value), el)
LoadEntry(jm) ==
    CASE jm.j = "absent" -> Absent
      [] jm.j = "string" -> Str(jm.s)
      [] jm.j = "object" -> Dict(LoadValue(jm.value))
LoadElapsed(jm) == IF jm.j = "object" THEN jm.elapsed_time ELSE 0

\* json.dump(self.results, result_file, indent=4)
json_dump(res, el) == [t \in Tasks |-> DumpEntry(res[t], el[t])]

\* _save_results: open("results.json", "w") empties the file, json.dump
\* writes it anew; an IOError is caught and logged.  open() failing leaves
\* the file as it was, a failing write leaves a cut-off file.
SaveOutcomes == {"ok", "open_fails", "write_fails"}

\* A save that dumps a copy of the ledger taken before the assignment of
\* line 216.
_save_results_stale(d, res, el, o) ==
    CASE o = "ok" -> File("valid", json_dump(results, elapsed_time))
      [] o = "open_fails" -> d
      [] o = "write_fails" -> File("truncated", NoData)

_save_results(d, res, el, o) ==
    CASE o = "ok" -> File("valid", json_dump(res, el))
      [] o = "open_fails" -> d
      [] o = "write_fails" -> File("truncated", NoData)

\* _load_results: what the call does ("dict": it returns a dict, "not_dict":
\* it returns what json.load gave, which is no dict, "raises": an exception
\* leaves it) and the ledger returned.  A missing file gives {}; IOError and
\* json.JSONDecodeError are caught and give {}; the UnicodeDecodeError of a
\* file that is not text is neither and propagates.
Loaded(out, res, el) == [outcome |-> out, results |-> res, elapsed_time |-> el]
_load_results(d) ==
    CASE d.state = "missing" -> Loaded("dict", Ledger0, NoElapsed)
      [] d.state = "unreadable" -> Loaded("dict", Ledger0, NoElapsed)
      [] d.state = "truncated" -> Loaded("dict", Ledger0, NoElapsed)
      [] d.state = "undecodable" -> Loaded("raises", Ledger0, NoElapsed)
      [] d.state = "not_a_map" -> Loaded("not_dict", Ledger0, NoElapsed)
      [] d.state = "valid" ->
            Loaded("dict", [t \in Tasks |-> LoadEntry(d.data[t])],
                           [t \in Tasks |-> LoadElapsed(d.data[t])])

\* The member key ("value", "reason", "status", ...) of an entry or of the
\* body poll returns for it, None if it has no such member: a terminal entry
\* has "value" and, held apart in elapsed_time, "elapsed_time", no other.
Get(body, key) == IF body.tag = "dict" /\ key = "value" THEN body.value ELSE NULL

\* A poll that does not look whether the id is a key of the ledger.
get_result_unchecked(res, id) ==
    IF id = NoId \/ id \notin Tasks
    THEN [code |-> 400, body |-> Absent]
    ELSE IF res[id] = Str(NOT_READY)
    THEN [code |-> 202, body |-> Str("processing")]
    ELSE [code |-> 200, body |-> res[id]]

\* A poll without the check of line 302: every dict entry is served as 200.
get_result_failed_ok(res, id) ==
    IF id = NoId \/ id \notin Tasks
    THEN [code |-> 400, body |-> Absent]
    ELSE IF res[id] = Absent
    THEN [code |-> 400, body |-> Absent]
    ELSE IF res[id] = Str(NOT_READY)
    THEN [code |-> 202, body |-> Str("processing")]
    ELSE [code |-> 200, body |-> res[id]]

\* get_result: the status code and body returned for a poll of id.
get_result(res, id) ==
    IF id = NoId \/ id \notin Tasks
    THEN [code |-> 400, body |-> Absent]
    ELSE IF res[id] = Absent
    THEN [code |-> 400, body |-> Absent]
    ELSE IF res[id] = Str(NOT_READY)
    THEN [code |-> 202, body |-> Str("processing")]
    ELSE IF res[id].value = CAPTCHA_FAIL
    THEN [code |-> 422, body |-> res[id]]
    ELSE [code |-> 200, body |-> res[id]]

\* -------------------------------------------------------------- the pool
\* asyncio.Queue.put_nowait: the item goes to the back of the queue.
QueuePut(q, s) == Append(q, s)

\* A get that peeks: the item is returned and stays in the queue.
QueueRestPeek(q) == q

\* A get that returns the item at the back while the front one is removed.
QueueFrontBack(q) == q[Len(q)]

\* asyncio.Queue.get_nowait: the item at the front is returned and removed.
QueueFront(q) == Head(q)
QueueRest(q) == Tail(q)

\* A lost wake-up: the getter is popped but its unit is never scheduled.
WakeReadyLost(g, r) == r

\* asyncio.Queue._wakeup_next: the first getter is popped and its future
\* completed, which schedules the unit's resumption on the event loop.
WakeGetters(g) == IF g = <<>> THEN g ELSE Tail(g)
WakeReady(g, r) == IF g = <<>> THEN r ELSE Append(r, Head(g))
WakePc(g, p) == IF g = <<>> THEN p ELSE [p EXCEPT ![Head(g)] = "woken"]

PickOne(S) == CHOOSE x \in S : TRUE

InSeq(x, s) == \E i \in 1..Len(s) : s[i] = x
Without(s, x) == SelectSeq(s, LAMBDA y : y # x)

Held == {t \in Tasks : slot[t] # 0}

\* ------------------------------------------------------------- startup
\* One iteration of the for loop of _initialize_browser: launch a browser,
\* open a page, put (i+1, browser, page).  An exception of the engine
\* propagates through _startup and the application does not serve.
InitializeBrowser ==
    /\ phase = "startup"
    /\ \E ok \in BOOLEAN :
         IF ok
         THEN /\ browser_pool' = QueuePut(browser_pool, launched + 1)
              /\ launched' = launched + 1
              /\ phase' = IF launched + 1 = thread_count THEN "serving" ELSE "startup"
         ELSE /\ phase' = "failed"
              /\ UNCHANGED <<browser_pool, launched>>
    /\ UNCHANGED <<frame, quota, getters, ready, results, disk, nextId, pc, slot,
                   attempt, invisible, resp, hist, timing>>

\* ------------------------------------------------------ process_turnstile
\* str(uuid.uuid4()): an id no earlier submit was given.
MintId == nextId

\* if not url or not sitekey: return 400
SubmitInvalid(url, sitekey) ==
    /\ phase = "serving"
    /\ Falsy(url) \/ Falsy(sitekey)
    /\ resp' = [op |-> "turnstile", url |-> url, sitekey |-> sitekey, id |-> NoId,
                code |-> 400, body |-> Str("error"), task_id |-> NoId]
    /\ UNCHANGED <<frame, quota, phase, launched, browser_pool, getters, ready,
                   results, disk, nextId, pc, slot, attempt, invisible, hist, timing>>

\* Requests served as soon as the process runs, the before_serving hook
\* still under way.
AcceptsDuringStartup == phase \in {"startup", "serving"}

\* A submit that waits for a free slot before it answers.
AcceptsWhenSlotFree == phase = "serving" /\ browser_pool # <<>>

\* The request may be served: the application is serving, whatever the
\* state of the pool.
Accepts == phase = "serving"

\* Mint the id, record it, create_task the unit, return 202 with the id.
SubmitValid(url, sitekey, inv) ==
    /\ Accepts
    /\ ~(Falsy(url) \/ Falsy(sitekey))
    /\ quota > 0 /\ nextId <= MaxTasks
    /\ LET id == MintId IN
         /\ results' = Create(results, id)
         /\ ready' = Append(ready, id)
         /\ pc' = [pc EXCEPT ![id] = "created"]
         /\ invisible' = [invisible EXCEPT ![id] = inv]
         /\ nextId' = nextId + 1
         /\ quota' = quota - 1
         /\ resp' = [op |-> "turnstile", url |-> url, sitekey |-> sitekey, id |-> NoId,
                     code |-> 202, body |-> Str("task_id"), task_id |-> id]
    /\ UNCHANGED <<frame, phase, launched, browser_pool, getters,
                   disk, slot, attempt, hist, timing>>

\* A submit with both mandatory parameters.
Submit == \E inv \in BOOLEAN : SubmitValid("x", "x", inv)

\* A submit with any combination of present, empty and missing parameters.
process_turnstile ==
    \E url \in ParamValues, sitekey \in ParamValues, inv \in BOOLEAN :
        \/ SubmitInvalid(url, sitekey)
        \/ SubmitValid(url, sitekey, inv)

\* ------------------------------------------------------------- get_result
Poll ==
    /\ phase = "serving"
    /\ \E id \in PollIds :
         LET r == get_result(results, id) IN
         resp' = [op |-> "result", url |-> NULL, sitekey |-> NULL, id |-> id,
                  code |-> r.code, body |-> r.body, task_id |-> NoId]
    /\ UNCHANGED <<frame, quota, phase, launched, browser_pool, getters, ready,
                   results, disk, nextId, pc, slot, attempt, invisible, hist, timing>>

\* -------------------------------------------------------- _solve_turnstile
\* await self.browser_pool.get(), run by the unit at the head of the event
\* loop's ready handles: while the queue is empty the unit appends a getter
\* and suspends; otherwise it takes the front item, reads the clock into
\* start_time (line 175) and goes on to page.route(...), where it suspends.
GetSlot(t) ==
    /\ ready # <<>> /\ Head(ready) = t
    /\ ready' = Tail(ready)
    /\ IF browser_pool = <<>>
       THEN /\ getters' = Append(getters, t)
            /\ pc' = [pc EXCEPT ![t] = "waiting"]
            /\ arrival' = IF InSeq(t, arrival) THEN arrival ELSE Append(arrival, t)
            /\ UNCHANGED <<browser_pool, slot, start_time>>
       ELSE /\ browser_pool' = QueueRest(browser_pool)
            /\ slot' = [slot EXCEPT ![t] = QueueFront(browser_pool)]
            /\ pc' = [pc EXCEPT ![t] = "route"]
            /\ arrival' = Without(arrival, t)
            /\ start_time' = [start_time EXCEPT ![t] = now]
            /\ UNCHANGED getters
    /\ entered' = IF pc[t] = "created" THEN [entered EXCEPT ![t] = now] ELSE entered
    /\ UNCHANGED <<frame, quota, phase, launched, results, disk, nextId, attempt,
                   invisible, resp, puts, putOwn, writes, count, elapsed_time>>

\* The first step of the unit create_task scheduled.
StartUnit(t) == pc[t] = "created" /\ GetSlot(t)

\* The resumption of a unit whose getter a put() completed.
ResumeGet(t) == pc[t] = "woken" /\ GetSlot(t)

\* An except of line 229 that records nothing before the finally block.
SetupFailsUnrecorded(t) ==
    /\ pc' = [pc EXCEPT ![t] = "reset_goto"]
    /\ UNCHANGED <<results, elapsed_time, writes, awaiting>>

\* A setup exception that is swallowed: the unit goes on into the loop.
SetupFailsIntoLoop(t) ==
    /\ pc' = [pc EXCEPT ![t] = "loop"]
    /\ awaiting' = [awaiting EXCEPT ![t] = "eval_on_selector"]
    /\ UNCHANGED <<results, elapsed_time, writes>>

\* except Exception (line 229): record CAPTCHA_FAIL, then the finally block
\* starts the reset with page.goto("about:blank").
SetupFails(t) ==
    /\ results' = Record(results, t, CAPTCHA_FAIL)
    /\ elapsed_time' = [elapsed_time EXCEPT ![t] = Elapsed(start_time[t], now)]
    /\ writes' = [writes EXCEPT ![t] = @ + 1]
    /\ pc' = [pc EXCEPT ![t] = "reset_goto"]
    /\ UNCHANGED awaiting

\* page.route(url, handler): the handler is added to those of the page.
Route(r, s, t) == [r EXCEPT ![s] = Append(@, t)]

\* await page.route(url_with_slash, ...) returns, the handler of this unit
\* now being registered on the page of its slot, or raises.
SetupRoute(t) ==
    /\ pc[t] = "route"
    /\ \E ok \in BOOLEAN :
         IF ok
         THEN /\ pc' = [pc EXCEPT ![t] = "goto"]
              /\ routes' = Route(routes, slot[t], t)
              /\ UNCHANGED <<results, writes, elapsed_time, awaiting>>
         ELSE SetupFails(t) /\ UNCHANGED routes
    /\ UNCHANGED <<thread_count, env, solver, solving, now, crashes, quota, phase,
                   launched, browser_pool, getters, ready, disk, nextId, slot,
                   attempt, invisible, resp, puts, putOwn, count, arrival,
                   start_time, entered>>

\* await page.goto(url_with_slash) returns (the loop starts: the unit is
\* next suspended in the probe of its first iteration) or raises.
SetupGoto(t) ==
    /\ pc[t] = "goto"
    /\ \E ok \in BOOLEAN :
         IF ok
         THEN /\ pc' = [pc EXCEPT ![t] = "loop"]
              /\ awaiting' = [awaiting EXCEPT ![t] = "eval_on_selector"]
              /\ UNCHANGED <<results, writes, elapsed_time>>
         ELSE SetupFails(t)
    /\ UNCHANGED <<others, quota, phase, launched, browser_pool, getters, ready, disk,
                   nextId, slot, attempt, invisible, resp, puts, putOwn, count,
                   arrival, start_time, entered>>

\* The calls of one iteration of the probe loop at which the coroutine
\* returns to the event loop:
\*   eval_on_selector  the probe of the field's value
\*   evaluate          page.evaluate(...), the reveal, on an empty field
\*   click             page.click(".cf-turnstile"), after the reveal
\*   sleep             asyncio.sleep(0.5) that ends an empty iteration
\*   query_selector    page.query_selector(...), on a field not empty
\*   get_attribute     element.get_attribute("value")
\*   backoff           asyncio.sleep(0.5) of the except of the server's loop
Awaits == {"eval_on_selector", "evaluate", "click", "sleep", "query_selector",
           "get_attribute", "backoff"}

\* What can come back from the call aw: the engine raises, the field is ""
\* or is not, query_selector finds an element or none, get_attribute
\* returns a value; every other call just returns.
Answers(aw) ==
    CASE aw = "eval_on_selector" -> {"raises", "empty", "not_empty"}
      [] aw = "query_selector" -> {"raises", "none", "element"}
      [] aw = "get_attribute" -> {"raises", "value"}
      [] aw \in {"evaluate", "click"} -> {"raises", "returns"}
      [] OTHER -> {"returns"}

\* How an iteration ends:
\*   empty       the sleep after an empty probe is over
\*   raised      an engine call raised (server: and the backoff is over)
\*   no_element  the field is not "", query_selector returned None
\*   value       the field is not "", get_attribute returned a value
Outcomes == {"empty", "raised", "no_element", "value"}
FaultOutcomes == {"raised", "no_element"}

\* The click made whatever invisible says.
ClicksOfAnyway(ans, inv) == IF ans = "empty" THEN 1 ELSE 0

\* page.click calls the answer of a probe leads to: the field is revealed
\* and clicked when it is empty and invisible is false.
ClicksOf(ans, inv) == IF ans = "empty" /\ ~inv THEN 1 ELSE 0

\* Where the iteration goes when the call aw comes back with ans: the next
\* call it is suspended in, the exception ("raise"), or the way it ends.
Resume(aw, ans, inv) ==
    CASE ans = "raises" -> "raise"
      [] aw = "eval_on_selector" /\ ans = "empty" ->
             IF ClicksOf(ans, inv) = 1 THEN "evaluate" ELSE "sleep"
      [] aw = "eval_on_selector" /\ ans = "not_empty" -> "query_selector"
      [] aw = "evaluate" -> "click"
      [] aw = "click" -> "sleep"
      [] aw = "sleep" -> "empty"
      [] aw = "backoff" -> "raised"
      [] aw = "query_selector" /\ ans = "element" -> "get_attribute"
      [] aw = "query_selector" /\ ans = "none" -> "no_element"
      [] aw = "get_attribute" -> "value"

\* except Exception (line 219): the warning is logged and the unit is
\* suspended in asyncio.sleep(0.5) before `continue`.
Caught(r) == IF r = "raise" THEN "backoff" ELSE r

\* The answers the engine of this run can give in the iteration of index
\* a: from index env.stalls on the field is filled and nothing raises.
Granted(ans, a) == a < env.stalls \/ ans \in {"not_empty", "element", "value", "returns"}

\* The iteration ends with break (lines 216-218).
Breaks(o) == o = "value"

\* Loop index after the iteration: range(10) is exhausted after index 9.
NextAttempt(a) == a + 1

\* A loop of one iteration too many (range(11)).
LoopOverLate(a, o) == Breaks(o) \/ NextAttempt(a) > MaxAttempts

\* A loop that an exception of the iteration ends (no inner try/except).
LoopOverOnFault(a, o) == Breaks(o) \/ o \in FaultOutcomes \/ NextAttempt(a) >= MaxAttempts

LoopOver(a, o) == Breaks(o) \/ NextAttempt(a) >= MaxAttempts

\* The ledger after the iteration, before the check that follows the loop.
AfterAttempt(res, t, o, v) == IF Breaks(o) THEN Record(res, t, v) ELSE res

\* The calls the engine counts: each when it has answered it.
Count(t, aw, ans) ==
    IF env.traced
    THEN /\ probes' = [probes EXCEPT ![t] = @ + (IF aw = "eval_on_selector" THEN 1 ELSE 0)]
         /\ clicks' = [clicks EXCEPT ![t] = @ + (IF aw = "click" THEN 1 ELSE 0)]
         /\ empties' = [empties EXCEPT ![t] = @ + (IF ans = "empty" THEN 1 ELSE 0)]
         /\ raised' = [raised EXCEPT ![t] = @ \/ ans \in {"raises", "none"}]
         /\ UNCHANGED resetFailed
    ELSE UNCHANGED count

\* The unit runs from the call of the loop it is suspended in to the next
\* call that suspends it: the next call of the iteration, the first of
\* the next iteration or, once the loop is left, after the check of line
\* 224, the page.goto("about:blank") of the reset.
Attempt(t) ==
    /\ pc[t] = "loop"
    /\ \E ans \in Answers(awaiting[t]), v \in env.attrs, so \in env.saves :
         /\ Granted(ans, attempt[t])
         /\ ans # "value" => (v = PickOne(env.attrs) /\ so = PickOne(env.saves))
         /\ LET o == Caught(Resume(awaiting[t], ans, invisible[t]))
                mid == AfterAttempt(results, t, o, v)
                over == LoopOver(attempt[t], o)
            IN IF o \in Awaits
               THEN /\ awaiting' = [awaiting EXCEPT ![t] = o]
                    /\ UNCHANGED <<results, elapsed_time, writes, disk, attempt, pc>>
               ELSE /\ results' = IF over THEN PostLoop(mid, t) ELSE mid
                    /\ elapsed_time' = IF results'[t] # results[t]
                                       THEN [elapsed_time EXCEPT ![t] = Elapsed(start_time[t], now)]
                                       ELSE elapsed_time
                    /\ writes' = [writes EXCEPT ![t] =
                           @ + Written(results, mid, t)
                             + (IF over THEN Written(mid, PostLoop(mid, t), t) ELSE 0)]
                    /\ disk' = IF Breaks(o) THEN _save_results(disk, mid, elapsed_time', so)
                                             ELSE disk
                    /\ attempt' = [attempt EXCEPT ![t] =
                           IF Breaks(o) THEN @ ELSE NextAttempt(@)]
                    /\ pc' = [pc EXCEPT ![t] = IF over THEN "reset_goto" ELSE "loop"]
                    /\ awaiting' = [awaiting EXCEPT ![t] =
                           IF over THEN "none" ELSE "eval_on_selector"]
         /\ Count(t, awaiting[t], ans)
    /\ UNCHANGED <<others, quota, phase, launched, browser_pool, getters, ready,
                   nextId, slot, invisible, resp, puts, putOwn, arrival, start_time,
                   entered>>

\* The item the finally block puts: (index, browser, page) as acquired.
ReleasedItem(t) == slot[t]

\* await self.browser_pool.put((index, browser, page)): the slot goes to the
\* back of the queue and the first getter, if any, is woken.  The
\* coroutine ends and its locals with it.
PutSlot(t) ==
    /\ browser_pool' = QueuePut(browser_pool, ReleasedItem(t))
    /\ getters' = WakeGetters(getters)
    /\ ready' = WakeReady(getters, ready)
    /\ pc' = WakePc(getters, [pc EXCEPT ![t] = "done"])
    /\ puts' = [puts EXCEPT ![t] = @ + 1]
    /\ putOwn' = [putOwn EXCEPT ![t] = @ /\ ReleasedItem(t) = slot[t]]
    /\ slot' = [slot EXCEPT ![t] = 0]
    /\ attempt' = [attempt EXCEPT ![t] = 0]
    /\ start_time' = [start_time EXCEPT ![t] = 0]

\* A reset that raises without the bare except of line 246: the coroutine
\* ends with the exception and never reaches the put.
ResetFailurePropagates(t) ==
    /\ pc' = [pc EXCEPT ![t] = "done"]
    /\ UNCHANGED <<browser_pool, getters, ready, puts, putOwn, slot, attempt,
                   start_time>>

\* except: pass (lines 246-247), then the put of line 249.
ResetFailure(t) == PutSlot(t)

\* finally: await page.goto("about:blank") returns, or raises into the
\* bare except, after which the slot is put back.
ResetGoto(t) ==
    /\ pc[t] = "reset_goto"
    /\ \E ok \in BOOLEAN :
         /\ IF ok
            THEN /\ pc' = [pc EXCEPT ![t] = "reset_eval"]
                 /\ UNCHANGED <<browser_pool, getters, ready, puts, putOwn, slot,
                                attempt, start_time>>
            ELSE ResetFailure(t)
         /\ resetFailed' = [resetFailed EXCEPT ![t] = @ \/ (env.traced /\ ~ok)]
    /\ UNCHANGED <<frame, quota, phase, launched, results, disk, nextId, resp, writes,
                   invisible, probes, clicks, empties, raised, arrival, elapsed_time,
                   entered>>

\* finally: await page.evaluate(clear storage) returns or raises (swallowed);
\* either way the slot is put back.
ResetEvaluate(t) ==
    /\ pc[t] = "reset_eval"
    /\ \E ok \in BOOLEAN :
         /\ IF ok THEN PutSlot(t) ELSE ResetFailure(t)
         /\ resetFailed' = [resetFailed EXCEPT ![t] = @ \/ (env.traced /\ ~ok)]
    /\ UNCHANGED <<frame, quota, phase, launched, results, disk, nextId, resp, writes,
                   invisible, probes, clicks, empties, raised, arrival, elapsed_time,
                   entered>>

_solve_turnstile(t) ==
    \/ StartUnit(t)
    \/ ResumeGet(t)
    \/ SetupRoute(t)
    \/ SetupGoto(t)
    \/ Attempt(t)
    \/ ResetGoto(t)
    \/ ResetEvaluate(t)

\* ------------------------------------------- the process and its store
\* uuid4 yields an id the ledger already has (one loaded from results.json
\* or one minted before) and whose unit, if it had one, has ended: line 266
\* assigns CAPTCHA_NOT_READY to it and a new unit is created for it.
SubmitCollides(id) ==
    /\ Accepts
    /\ quota > 0
    /\ results[id] # Absent /\ pc[id] \in {"none", "done"}
    /\ results' = Create(results, id)
    /\ elapsed_time' = [elapsed_time EXCEPT ![id] = 0]
    /\ ready' = Append(ready, id)
    /\ pc' = [pc EXCEPT ![id] = "created"]
    /\ \E inv \in BOOLEAN : invisible' = [invisible EXCEPT ![id] = inv]
    /\ quota' = quota - 1
    /\ resp' = [op |-> "turnstile", url |-> "x", sitekey |-> "x", id |-> NoId,
                code |-> 202, body |-> Str("task_id"), task_id |-> id]
    /\ puts' = [puts EXCEPT ![id] = 0]
    /\ putOwn' = [putOwn EXCEPT ![id] = TRUE]
    /\ writes' = [writes EXCEPT ![id] = 0]
    /\ UNCHANGED <<frame, phase, launched, browser_pool, getters, disk, nextId, slot,
                   attempt, count, arrival, start_time, entered>>

\* TurnstileAPIServer.__init__ in a new process: self.results is what
\* _load_results returns.  If the call raises, so does the constructor and
\* there is no server; if it returns something that is not a dict, the
\* server is built on it and each handler raises TypeError on its first use
\* of self.results (not followed further here).
Construct ==
    /\ phase = "off"
    /\ LET l == _load_results(disk) IN
         /\ phase' = CASE l.outcome = "dict" -> "startup"
                       [] l.outcome = "not_dict" -> "not_a_dict"
                       [] l.outcome = "raises" -> "init_raised"
         /\ results' = l.results
         /\ elapsed_time' = l.elapsed_time
    /\ UNCHANGED <<frame, quota, launched, browser_pool, getters, ready, disk, nextId,
                   pc, slot, attempt, invisible, resp, hist, start_time, entered>>

\* The process ends: everything it held in memory is gone; results.json
\* and the clients stay.
Ends ==
    /\ phase' = "off"
    /\ crashes' = crashes + 1
    /\ launched' = 0
    /\ browser_pool' = <<>>
    /\ getters' = <<>>
    /\ ready' = <<>>
    /\ results' = Ledger0
    /\ elapsed_time' = NoElapsed
    /\ pc' = [t \in Tasks |-> "none"]
    /\ slot' = [t \in Tasks |-> 0]
    /\ attempt' = [t \in Tasks |-> 0]
    /\ awaiting' = [t \in Tasks |-> "none"]
    /\ invisible' = [t \in Tasks |-> FALSE]
    /\ resp' = NoResp
    /\ puts' = [t \in Tasks |-> 0]
    /\ putOwn' = [t \in Tasks |-> TRUE]
    /\ writes' = [t \in Tasks |-> 0]
    /\ probes' = [t \in Tasks |-> 0]
    /\ clicks' = [t \in Tasks |-> 0]
    /\ empties' = [t \in Tasks |-> 0]
    /\ raised' = [t \in Tasks |-> FALSE]
    /\ arrival' = <<>>
    /\ start_time' = [t \in Tasks |-> 0]
    /\ entered' = [t \in Tasks |-> 0]
    /\ resetFailed' = [t \in Tasks |-> FALSE]
    /\ routes' = NoRoutes
    /\ UNCHANGED <<thread_count, env, solver, solving, now, quota, nextId>>

\* The process is killed, or exits after a failed startup, at a point where
\* it is not writing results.json.
Crash ==
    /\ phase \in {"startup", "serving", "failed"}
    /\ crashes < MaxCrashes
    /\ Ends
    /\ disk' = disk

\* The process is killed inside _save_results (line 217 of a unit in the
\* loop), after open(..., "w") has emptied the file and before json.dump
\* has written all of it.
CrashInSave ==
    /\ phase = "serving"
    /\ crashes < MaxCrashes
    /\ \E t \in Tasks : pc[t] = "loop" /\ awaiting[t] = "get_attribute"
    /\ Ends
    /\ disk' = File("truncated", NoData)

\* time.time() advances.
Tick ==
    /\ now < MaxClock
    /\ now' = now + 1
    /\ UNCHANGED <<thread_count, env, solver, solving, crashes, routes, quota, phase,
                   launched, browser_pool, getters, ready, results, disk, nextId,
                   pc, slot, attempt, awaiting, invisible, resp, hist, timing>>

\* ------------------------------ _get_turnstile_response (sync and async)
\* What the call does on an empty field: reveal and click unless invisible,
\* sleep, attempts += 1; an exception of the engine leaves the function.
\* On a field that is not empty: the value attribute of the element is
\* returned, or None (break) if query_selector finds no element.
GetRaises(o) == o = "raise"
GetReturns(o) == o \in {"no_element", "value"}

\* while attempts < max_attempts
GetLoops(a, m) == a < m

\* The call runs from one call on the page to the next (async: from one
\* suspension to the next), or to the end of the iteration and, when the
\* loop is left by break or by its condition, to the return.
GetIteration ==
    /\ g_pc = "loop"
    /\ \E ans \in Answers(g_awaiting), v \in env.attrs :
         /\ ans # "value" => v = PickOne(env.attrs)
         /\ LET o == Resume(g_awaiting, ans, g_invisible)
            IN /\ g_probes' = g_probes + (IF g_awaiting = "eval_on_selector" THEN 1 ELSE 0)
               /\ g_clicks' = g_clicks + (IF g_awaiting = "click" THEN 1 ELSE 0)
               /\ g_empties' = g_empties + (IF ans = "empty" THEN 1 ELSE 0)
               /\ g_fault' = (g_fault \/ ans \in {"raises", "none"})
               /\ g_attempts' = IF o = "empty" THEN g_attempts + 1 ELSE g_attempts
               /\ g_pc' = IF GetRaises(o) THEN "raise"
                          ELSE IF o \in Awaits THEN "loop"
                          ELSE IF GetReturns(o) \/ ~GetLoops(g_attempts', g_max) THEN "return"
                          ELSE "loop"
               /\ g_awaiting' = IF o \in Awaits THEN o
                                ELSE IF g_pc' = "loop" THEN "eval_on_selector"
                                ELSE "none"
               /\ g_ret' = IF o = "value" THEN v ELSE NULL
    /\ UNCHANGED <<thread_count, env, quota, g_max, g_invisible, phase, launched,
                   browser_pool, getters, ready, results, disk, nextId, pc, slot,
                   attempt, awaiting, invisible, resp, puts, putOwn, writes, count,
                   arrival, now, crashes, timing, solving, routes>>

\* A call _get_turnstile_response(page, max_attempts = m, invisible = inv);
\* with m = 0 the loop is not entered and None is returned.
SolverCall(m, inv) ==
    /\ g_pc = IF GetLoops(0, m) THEN "loop" ELSE "return"
    /\ g_awaiting = IF GetLoops(0, m) THEN "eval_on_selector" ELSE "none"
    /\ g_max = m
    /\ g_invisible = inv
    /\ g_attempts = 0
    /\ g_ret = NULL
    /\ g_probes = 0
    /\ g_clicks = 0
    /\ g_empties = 0
    /\ g_fault = FALSE

\* The TurnstileResult solve() builds from what _get_turnstile_response
\* returned: failure with a reason and no value if it is None or "",
\* success with the value and no reason otherwise.
SolveResult(ret) ==
    IF Falsy(ret)
    THEN [status |-> "failure", turnstile_value |-> NULL,
          reason |-> "Max attempts reached without token retrieval"]
    ELSE [status |-> "success", turnstile_value |-> ret, reason |-> NULL]

\* What solve() hands to its caller: the except around the whole of solve()
\* turns an exception of _get_turnstile_response into a result of status
\* "error" whose reason is the exception's message.
SolveOutcome(gpc, ret) ==
    IF gpc = "raise"
    THEN [status |-> "error", turnstile_value |-> NULL, reason |-> "str(e)"]
    ELSE SolveResult(ret)

\* ------------------------------------------------ solve() (sync and async)
\* The two solver classes, and values of browser_type: the constructors
\* store whatever string they are given ("firefox" stands for any string
\* neither solve() has a branch for).
Flavours == {"sync", "async"}
BrowserTypes == {"chromium", "chrome", "msedge", "camoufox", "firefox"}

\* The values of browser_type the if/elif chain of solve() has a branch for.
Branches(fl) ==
    IF fl = "sync" THEN {"chromium", "chrome", "msedge", "camoufox"}
                   ELSE {"chromium", "chrome", "camoufox"}

\* The branch is the body of `with sync_playwright() as playwright:`.
InWith(fl, bt) == fl = "sync" /\ bt # "camoufox"

\* What is still open once control has left the branch: leaving the with
\* statement stops the driver and, with it, what the driver launched.
AfterBranch(fl, bt, op) == IF InWith(fl, bt) THEN {} ELSE op

\* The TurnstileResult built by the except around the body of solve().
ErrorResult(e) == [status |-> "error", turnstile_value |-> NULL, reason |-> e]

\* raise: e propagates in place of whatever was propagating.
Raise(e) ==
    /\ exc' = e
    /\ original' = IF original = NoExc THEN e ELSE original

\* The state of the server, which solve() does not touch.
serverVars == <<thread_count, env, now, crashes, routes, quota, phase, launched,
                browser_pool, getters, ready, results, disk, nextId, pc, slot,
                attempt, awaiting, invisible, resp, hist, timing>>

\* if self.browser_type == ... elif ...: with no branch for the value,
\* control falls through the try to `return result`.
SolveBranch ==
    /\ s_pc = "branch"
    /\ s_pc' = IF browser_type \in Branches(flavour) THEN "start" ELSE "end"
    /\ UNCHANGED <<flavour, browser_type, opened, exc, result, returned, original,
                   solver, serverVars>>

\* sync_playwright().__enter__ / await async_playwright().start() /
\* Camoufox(...).start(): the driver is started (camoufox: the call hands
\* back the browser, the only handle solve() keeps), or the call raises.
SolveStart ==
    /\ s_pc = "start"
    /\ \E ok \in BOOLEAN :
         IF ok
         THEN /\ opened' = IF browser_type = "camoufox" THEN {"browser"} ELSE {"driver"}
              /\ s_pc' = IF browser_type = "camoufox" THEN "setup" ELSE "launch"
              /\ UNCHANGED <<exc, original>>
         ELSE /\ opened' = {}
              /\ Raise("start")
              /\ s_pc' = "except"
    /\ UNCHANGED <<flavour, browser_type, result, returned, solver, serverVars>>

\* playwright.chromium.launch(...) / launch_persistent_context(...): it
\* returns the browser or raises out of the branch.
SolveLaunch ==
    /\ s_pc = "launch"
    /\ \E ok \in BOOLEAN :
         IF ok
         THEN /\ opened' = opened \cup {"browser"}
              /\ s_pc' = IF browser_type = "chromium" THEN "context" ELSE "setup"
              /\ UNCHANGED <<exc, original>>
         ELSE /\ opened' = AfterBranch(flavour, browser_type, opened)
              /\ Raise("launch")
              /\ s_pc' = "except"
    /\ UNCHANGED <<flavour, browser_type, result, returned, solver, serverVars>>

\* chromium: browser.new_context() returns the context, and
\* context.add_cookies(...) is called next when cookies were given, or it
\* raises; the call is before the inner try, so that an exception of it
\* leaves the branch.
SolveContext ==
    /\ s_pc = "context"
    /\ \E ok \in BOOLEAN, cookies \in BOOLEAN :
         IF ok
         THEN /\ opened' = opened \cup {"context"}
              /\ s_pc' = IF cookies THEN "cookies" ELSE "setup"
              /\ UNCHANGED <<exc, original>>
         ELSE /\ ~cookies
              /\ opened' = AfterBranch(flavour, browser_type, opened)
              /\ Raise("context")
              /\ s_pc' = "except"
    /\ UNCHANGED <<flavour, browser_type, result, returned, solver, serverVars>>

\* chromium, if cookie_list: context.add_cookies(cookie_list) returns or
\* raises, the context being open and the call before the inner try.
SolveCookies ==
    /\ s_pc = "cookies"
    /\ \E ok \in BOOLEAN :
         IF ok
         THEN /\ s_pc' = "setup"
              /\ UNCHANGED <<opened, exc, original>>
         ELSE /\ opened' = AfterBranch(flavour, browser_type, opened)
              /\ Raise("context")
              /\ s_pc' = "except"
    /\ UNCHANGED <<flavour, browser_type, result, returned, solver, serverVars>>

\* The close calls of the finally block, in the order of the code:
\* context.close() (chromium), browser.close(), playwright.stop() (async
\* chromium and chrome); then the debug lines.
Closes == {"close_context", "close_browser", "stop"}

\* What a close call closes when it returns.
Closing(c) ==
    CASE c = "close_context" -> "context"
      [] c = "close_browser" -> "browser"
      [] c = "stop" -> "driver"

\* finally: the first call of the block.
FirstClose(bt) == IF bt = "chromium" THEN "close_context" ELSE "close_browser"

\* The statement after the close call c has returned.
NextClose(fl, bt, c) ==
    IF c = "close_context" THEN "close_browser"
    ELSE IF c = "close_browser" /\ fl = "async" /\ bt # "camoufox" THEN "stop"
    ELSE "debug"

\* sync: the close calls are in a try whose except logs the exception.
Guarded(fl) == fl = "sync"

\* try: page = self._setup_page(...): it returns, and
\* _get_turnstile_response(page, invisible=invisible) is called with the
\* default max_attempts, or it raises into the finally block.
SolveSetup ==
    /\ s_pc = "setup"
    /\ \E ok \in BOOLEAN, inv \in BOOLEAN :
         IF ok
         THEN /\ s_pc' = "probe"
              /\ g_pc' = "loop"
              /\ g_awaiting' = "eval_on_selector"
              /\ g_max' = MaxAttempts
              /\ g_invisible' = inv
              /\ UNCHANGED <<g_attempts, g_ret, g_probes, g_clicks, g_empties,
                             g_fault, exc, original>>
         ELSE /\ s_pc' = FirstClose(browser_type)
              /\ Raise("setup")
              /\ UNCHANGED solver
    /\ UNCHANGED <<flavour, browser_type, opened, result, returned, serverVars>>

\* _get_turnstile_response is over: on a return result is bound to the
\* TurnstileResult built from the value, an exception goes on (sync:
\* logged and re-raised) into the finally block.
SolveProbed ==
    /\ s_pc = "probe"
    /\ g_pc \in {"return", "raise"}
    /\ IF g_pc = "return"
       THEN result' = SolveResult(g_ret) /\ UNCHANGED <<exc, original>>
       ELSE Raise("probe") /\ UNCHANGED result
    /\ s_pc' = FirstClose(browser_type)
    /\ UNCHANGED <<flavour, browser_type, opened, returned, solver, serverVars>>

\* A close call of the finally block returns, having closed what it was
\* called on, or raises, having closed nothing: the exception is logged
\* and the calls after it are skipped (sync), or it leaves the block in
\* place of whatever was propagating (async).
SolveClose ==
    /\ s_pc \in Closes
    /\ \E ok \in BOOLEAN :
         IF ok
         THEN /\ opened' = opened \ {Closing(s_pc)}
              /\ s_pc' = NextClose(flavour, browser_type, s_pc)
              /\ UNCHANGED <<exc, original>>
         ELSE IF Guarded(flavour)
         THEN /\ s_pc' = "debug"
              /\ UNCHANGED <<opened, exc, original>>
         ELSE /\ opened' = AfterBranch(flavour, browser_type, opened)
              /\ Raise("close")
              /\ s_pc' = "except"
    /\ UNCHANGED <<flavour, browser_type, result, returned, solver, serverVars>>

\* The exception that leaves the finally block after its close calls: the
\* UnboundLocalError of debug(f"... {result.elapsed_time_seconds} ...")
\* when result is not bound, else the one that entered the block, if any.
FinallyRaises(res, e) == IF res = Unbound THEN UNBOUND ELSE e

\* The debug lines that end the finally block, and the way out of the
\* branch.
SolveDebug ==
    /\ s_pc = "debug"
    /\ LET e == FinallyRaises(result, exc)
       IN /\ opened' = AfterBranch(flavour, browser_type, opened)
          /\ IF e = NoExc THEN UNCHANGED <<exc, original>> ELSE Raise(e)
          /\ s_pc' = IF e = NoExc THEN "end" ELSE "except"
    /\ UNCHANGED <<flavour, browser_type, result, returned, solver, serverVars>>

\* except Exception as e: return TurnstileResult(None, ..., "error", str(e))
SolveExcept ==
    /\ s_pc = "except"
    /\ returned' = [kind |-> "returns", value |-> ErrorResult(exc), message |-> NoExc]
    /\ exc' = NoExc
    /\ s_pc' = "done"
    /\ UNCHANGED <<flavour, browser_type, opened, result, original, solver, serverVars>>

\* return result, after the try statement: a read of a local that may be
\* unbound, outside every handler.
SolveReturn ==
    /\ s_pc = "end"
    /\ IF result # Unbound
       THEN /\ returned' = [kind |-> "returns", value |-> result, message |-> NoExc]
            /\ UNCHANGED <<exc, original>>
       ELSE /\ returned' = [kind |-> "raises", value |-> Unbound, message |-> UNBOUND]
            /\ Raise(UNBOUND)
    /\ s_pc' = "done"
    /\ UNCHANGED <<flavour, browser_type, opened, result, solver, serverVars>>

\* ------------------------------------------------------- specifications
\* Spec: the pool and the ledger under MaxTasks concurrent units.
Next ==
    \/ InitializeBrowser
    \/ Submit
    \/ \E t \in Tasks : _solve_turnstile(t)

Init == \E n \in 1..MaxThreads : Start(n, MaxTasks, Env(FALSE, AttrValues, {"ok"}, Stalls(n)))

Spec == Init /\ [][Next]_vars

\* FairSpec: Spec under the scheduling the event loop gives: every handle
\* it holds is run, and every engine call a unit waits for returns.
FairInit ==
    \E n \in 1..MaxThreads : Start(n, MaxTasks, Env(FALSE, {TOKEN}, {"ok"}, Stalls(n)))

Fairness == \A t \in Tasks : WF_vars(_solve_turnstile(t))

FairSpec == FairInit /\ [][Next]_vars /\ Fairness

\* ProtocolSpec: the probe loop with an engine that counts the calls made
\* on it: either the server with the units of MaxTraced submits, or one
\* call of _get_turnstile_response of a standalone solver.
TracedEnv == Env(TRUE, {TOKEN}, {"ok"}, MaxAttempts)

ProtocolInit ==
    \/ Start(1, MaxTraced, TracedEnv)
    \/ /\ thread_count = 1 /\ quota = 0 /\ env = TracedEnv /\ phase = "off"
       /\ Server0
       /\ \E m \in 0..MaxAttempts, inv \in BOOLEAN : SolverCall(m, inv)
       /\ SolveOff

ProtocolNext ==
    \/ Next
    \/ GetIteration

ProtocolSpec == ProtocolInit /\ [][ProtocolNext]_vars

\* SolveSpec: one call of solve() on a solver of either class, built with
\* any browser_type, every engine call of which may raise.
SolveInit ==
    /\ thread_count = 1 /\ quota = 0 /\ env = TracedEnv /\ phase = "off"
    /\ Server0
    /\ SolverOff
    /\ flavour \in Flavours
    /\ browser_type \in BrowserTypes
    /\ s_pc = "branch"
    /\ opened = {}
    /\ exc = NoExc
    /\ result = Unbound
    /\ returned = Running
    /\ original = NoExc

SolveNext ==
    \/ SolveBranch
    \/ SolveStart
    \/ SolveLaunch
    \/ SolveContext
    \/ SolveCookies
    \/ SolveSetup
    \/ GetIteration
    \/ SolveProbed
    \/ SolveClose
    \/ SolveDebug
    \/ SolveExcept
    \/ SolveReturn

SolveSpec == SolveInit /\ [][SolveNext]_vars

\* ApiSpec: the two HTTP handlers, every request they can get, and the
\* units of MaxApiTasks valid submits.
ApiInit ==
    \E n \in 1..MaxThreads : Start(n, MaxApiTasks, Env(FALSE, AttrValues, {"ok"}, Stalls(n)))

ApiNext ==
    \/ InitializeBrowser
    \/ process_turnstile
    \/ Poll
    \/ \E t \in Tasks : _solve_turnstile(t)

ApiSpec == ApiInit /\ [][ApiNext]_vars

\* StoreSpec: the ledger and results.json over the lives of the process:
\* it is constructed on whatever results.json is, serves MaxStoreTasks
\* submits in all, ends and is started again.
StoreInit ==
    /\ thread_count = 1
    /\ quota = MaxStoreTasks
    /\ env = Env(FALSE, AttrValues, SaveOutcomes, MaxAttempts)
    /\ phase = "off"
    /\ Fresh
    /\ SolverOff
    /\ SolveOff
    /\ \E st \in StoreStates : disk = File(st, NoData)

StoreNext ==
    \/ Construct
    \/ Crash
    \/ CrashInSave
    \/ Tick
    \/ InitializeBrowser
    \/ Submit
    \/ \E id \in Tasks : SubmitCollides(id)
    \/ \E t \in Tasks : _solve_turnstile(t)

StoreSpec == StoreInit /\ [][StoreNext]_vars

\* ClockSpec: one slot, MaxClockTasks submits and a clock that advances.
ClockInit == Start(1, MaxClockTasks, Env(FALSE, {TOKEN}, {"ok"}, MaxAttempts))

ClockNext ==
    \/ Next
    \/ Tick

ClockSpec == ClockInit /\ [][ClockNext]_vars

\* ------------------------------------------------------------ properties
PoolSet == {browser_pool[i] : i \in 1..Len(browser_pool)}
HeldSlots == {slot[t] : t \in Held}
Holders(s) == {t \in Tasks : slot[t] = s}
\* Units between acquire and release: setup, the probe loop, the reset.
InFlight == {t \in Tasks : pc[t] \in {"route", "goto", "loop", "reset_goto", "reset_eval"}}
Terminal(e) == e.tag = "dict"
Pending(e) == e = Str(NOT_READY)

\* C1  Pool conservation: once startup has enqueued the N slots, the slots
\* in browser_pool plus the slots held by in-flight units are N in number
\* and are exactly the slots 1..N (none duplicated, fabricated or lost).
PoolConservation ==
    phase = "serving" =>
        /\ Len(browser_pool) + Cardinality(Held) = thread_count
        /\ PoolSet \cup HeldSlots = 1..thread_count

\* C1 witness: with N = 2, one slot is in the pool, the other is held, a
\* unit has already ended and another one waits for its first step.
PoolConservationWitness ==
    /\ phase = "serving" /\ thread_count = 2
    /\ Len(browser_pool) = 1 /\ Cardinality(Held) = 1
    /\ \E t \in Tasks : pc[t] = "done"
    /\ \E t \in Tasks : pc[t] = "created"

\* C2  Slot exclusivity and concurrency ceiling: each slot is either in the
\* pool (once) or held by exactly one unit, never both; the units between
\* acquire and release are the holders, and they are at most N.
SlotExclusivity ==
    phase = "serving" =>
        /\ \A s \in 1..thread_count :
              \/ /\ Cardinality({i \in 1..Len(browser_pool) : browser_pool[i] = s}) = 1
                 /\ Holders(s) = {}
              \/ /\ ~InSeq(s, browser_pool)
                 /\ Cardinality(Holders(s)) = 1
        /\ InFlight = Held
        /\ Cardinality(InFlight) <= thread_count

\* C2 witness: all N = 2 slots are held by units in the probe loop while a
\* third submitted unit is suspended in get().
SlotExclusivityWitness ==
    /\ thread_count = 2 /\ browser_pool = <<>>
    /\ Cardinality({t \in Tasks : pc[t] = "loop"}) = 2
    /\ \E t \in Tasks : pc[t] = "waiting"

\* C3  Release on all exit paths: a unit that has ended has put exactly one
\* item, the slot it had acquired, and holds nothing; a unit that holds a
\* slot has not ended, has put nothing and still has a step to take.
ReleaseOnAllPaths ==
    \A t \in Tasks :
        /\ pc[t] = "done" => (puts[t] = 1 /\ putOwn[t] /\ slot[t] = 0)
        /\ slot[t] # 0 => (puts[t] = 0 /\ pc[t] \in {"route", "goto", "loop",
                                                      "reset_goto", "reset_eval"})
        /\ pc[t] \in {"route", "goto", "loop", "reset_goto", "reset_eval"} =>
              slot[t] # 0

\* C3 witness: three units have ended, one recorded a token and one
\* CAPTCHA_FAIL, and every slot is back in the pool.
ReleaseOnAllPathsWitness ==
    /\ \A t \in Tasks : pc[t] = "done" /\ puts[t] = 1
    /\ \E t \in Tasks : results[t] = Dict(TOKEN)
    /\ \E t \in Tasks : results[t] = Dict(CAPTCHA_FAIL)
    /\ Len(browser_pool) = thread_count

\* C4  Exactly-once completion: an entry leaves CAPTCHA_NOT_READY for a
\* terminal value in one write, a terminal entry is never written again by
\* any step of any unit, and a unit that has ended left a terminal entry.
ExactlyOnceCompletion ==
    /\ [](\A t \in Tasks :
            /\ writes[t] <= 1
            /\ Terminal(results[t]) <=> writes[t] = 1
            /\ pc[t] = "done" => Terminal(results[t]))
    /\ [][\A t \in Tasks :
            /\ Terminal(results[t]) => results'[t] = results[t]
            /\ Pending(results[t]) => (Pending(results'[t]) \/ Terminal(results'[t]))]_vars

\* C4 witness: a unit recorded a token, went through the check after the
\* loop and the reset and has ended, while another entry is still pending.
ExactlyOnceCompletionWitness ==
    \E t, u \in Tasks :
        /\ pc[t] = "done" /\ results[t] = Dict(TOKEN) /\ writes[t] = 1
        /\ Pending(results[u])

\* The unit of t exists and has made no terminal write yet.
Incomplete(t) == pc[t] \in {"created", "waiting", "woken", "route", "goto", "loop"}

Processing == [code |-> 202, body |-> Str("processing")]

\* C5  Non-blocking submit: while the application serves, a valid submit
\* can be served at once whatever the pool holds; it records the new id as
\* CAPTCHA_NOT_READY, schedules the unit, answers 202 with the id and
\* leaves the pool, the slots and every other unit as they were; a poll for
\* an id whose unit has not completed the task answers 202 processing.
NonBlockingSubmit ==
    /\ []((phase = "serving" /\ quota > 0 /\ nextId <= MaxTasks) => ENABLED Submit)
    /\ [](\A t \in Tasks : Incomplete(t) => get_result(results, t) = Processing)
    /\ [][nextId' # nextId =>
            /\ Pending(results'[nextId])
            /\ get_result(results', nextId) = Processing
            /\ pc[nextId] = "none" /\ pc'[nextId] = "created"
            /\ resp'.code = 202 /\ resp'.task_id = nextId
            /\ \A u \in Tasks \ {nextId} : pc'[u] = pc[u] /\ results'[u] = results[u]
            /\ UNCHANGED <<browser_pool, getters, slot>>]_vars

\* C5 witness: the only slot is checked out and a unit already waits for
\* it when a further submit is answered 202 with its id, its unit not yet
\* started and its entry CAPTCHA_NOT_READY.
NonBlockingSubmitWitness ==
    /\ thread_count = 1 /\ browser_pool = <<>> /\ Cardinality(Held) = 1
    /\ resp.op = "turnstile" /\ resp.code = 202 /\ resp.task_id = 2
    /\ pc[2] = "created" /\ Pending(results[2])

\* C6  Validation before any resource use: a submit whose url or sitekey is
\* missing or empty is answered 400 with no id, and the ledger, the store,
\* the pool, its getters, the scheduled handles and every unit are left as
\* they were.
ValidationBeforeUse ==
    [][(resp' # resp /\ resp'.op = "turnstile"
          /\ (resp'.url \in {NULL, ""} \/ resp'.sitekey \in {NULL, ""})) =>
            /\ resp'.code = 400 /\ resp'.task_id = NoId
            /\ UNCHANGED <<results, disk, browser_pool, getters, ready, nextId,
                           pc, slot>>]_vars

\* C6 witness: a submit with a url and an empty sitekey has been answered
\* 400 while a unit holds a slot and another entry is pending.
ValidationBeforeUseWitness ==
    /\ resp.op = "turnstile" /\ resp.url = "x" /\ resp.sitekey = "" /\ resp.code = 400
    /\ Cardinality(Held) = 1
    /\ \E t \in Tasks : Pending(results[t]) /\ pc[t] = "created"

\* C7  Starvation-freedom: under fair scheduling every submitted task
\* reaches a terminal entry and its unit ends, no unit stays in acquire for
\* ever, and the pool is full again after every state.
StarvationFreedom ==
    /\ \A t \in Tasks : (pc[t] # "none") ~> (pc[t] = "done" /\ Terminal(results[t]))
    /\ \A t \in Tasks : (pc[t] \in {"created", "waiting", "woken"}) ~> (slot[t] # 0)
    /\ (phase = "serving") ~> (Len(browser_pool) = thread_count)

\* C7 witness: with one slot, two units are suspended in get() while a
\* third holds the slot.
StarvationFreedomWitness ==
    /\ thread_count = 1
    /\ Cardinality({t \in Tasks : pc[t] = "waiting"}) = 2
    /\ Cardinality(Held) = 1

\* C8  FIFO hand-off: a unit that obtains a slot is the earliest caller of
\* acquire among the units not yet served; no later caller is served while
\* an earlier one is still waiting or woken.
FifoHandOff ==
    [][\A t \in Tasks :
          (slot[t] = 0 /\ slot'[t] # 0) => (arrival = <<>> \/ Head(arrival) = t)]_vars

AfterLoop == {"reset_goto", "reset_eval", "done"}

\* The reveal-and-click of the last empty probe is under way.
Revealing(aw) == IF aw \in {"evaluate", "click"} THEN 1 ELSE 0

\* The value of the field a probe found not empty is being fetched.
Fetching(aw) == aw \in {"query_selector", "get_attribute"}

\* C9  Early success: when the engine raised nothing and the field was
\* empty on the first k probes and not empty on probe k+1 (k < 10), the
\* unit makes no further probe: it is fetching the field's value or has
\* left the loop with the value recorded (server) or returned (standalone
\* solvers); as long as nothing raised, one click was made per empty probe
\* when invisible is false (the one of the last empty probe may still be
\* under way) and none when it is true.
EarlySuccess ==
    /\ \A t \in Tasks :
          /\ ~raised[t] =>
                clicks[t] = IF invisible[t] THEN 0
                            ELSE empties[t] - Revealing(awaiting[t])
          /\ (~raised[t] /\ probes[t] = empties[t] + 1) =>
                /\ empties[t] < MaxAttempts
                /\ IF pc[t] = "loop"
                   THEN Fetching(awaiting[t]) /\ Pending(results[t])
                   ELSE pc[t] \in AfterLoop /\ results[t] = Dict(TOKEN)
    /\ ~g_fault => g_clicks = IF g_invisible THEN 0
                              ELSE g_empties - Revealing(g_awaiting)
    /\ (~g_fault /\ g_probes = g_empties + 1) =>
          /\ g_empties < g_max
          /\ IF g_pc = "loop"
             THEN Fetching(g_awaiting)
             ELSE g_pc = "return" /\ g_ret = TOKEN

\* C9 witness: a visible unit has ended after 3 empty probes and a fourth
\* that was not empty, with 3 clicks and the token recorded, and an
\* invisible unit after the same probes with no click.
EarlySuccessWitness ==
    \E t, u \in Tasks :
        /\ pc[t] = "done" /\ ~raised[t] /\ ~invisible[t]
        /\ empties[t] = 3 /\ probes[t] = 4 /\ clicks[t] = 3
        /\ results[t] = Dict(TOKEN)
        /\ pc[u] = "done" /\ ~raised[u] /\ invisible[u]
        /\ empties[u] = 3 /\ probes[u] = 4 /\ clicks[u] = 0
        /\ results[u] = Dict(TOKEN)

\* C10  Exhaustion: a unit whose every probe found the field empty is in
\* the loop with its entry CAPTCHA_NOT_READY until it has made exactly 10
\* probes and the sleep of the tenth is over; it has then left the loop and
\* its entry is CAPTCHA_FAIL, not CAPTCHA_NOT_READY and not a token; no unit
\* makes more than 10 probes.  A standalone call whose every probe found
\* the field empty returns None after exactly max_attempts probes.
Exhaustion ==
    /\ \A t \in Tasks :
          /\ probes[t] <= MaxAttempts
          /\ (probes[t] >= 1 /\ empties[t] = probes[t]) =>
                IF pc[t] = "loop"
                THEN Pending(results[t])
                ELSE /\ pc[t] \in AfterLoop
                     /\ probes[t] = MaxAttempts
                     /\ results[t] = Dict(CAPTCHA_FAIL)
    /\ g_probes <= g_max
    /\ (g_pc = "return" /\ g_empties = g_probes) =>
          (g_probes = g_max /\ g_ret = NULL)

\* C10 witness: a unit has ended after 10 empty probes, none of its engine
\* calls having raised, with CAPTCHA_FAIL recorded.
ExhaustionWitness ==
    \E t \in Tasks :
        /\ pc[t] = "done" /\ ~raised[t]
        /\ probes[t] = MaxAttempts /\ empties[t] = MaxAttempts
        /\ results[t] = Dict(CAPTCHA_FAIL)

\* The unit of t left _solve_turnstile's try block by the except of line
\* 229, before any probe (an exception during setup).
SetupError(t) == pc[t] \in AfterLoop /\ probes[t] = 0

\* The unit of t made all its probes and recorded no token.
Exhausted(t) ==
    pc[t] \in AfterLoop /\ probes[t] = MaxAttempts /\ results[t] = Dict(CAPTCHA_FAIL)

\* C11  Failures carry a reason and keep their kind: what poll returns for
\* a task that ended without success has a non-empty "reason", and what it
\* returns for a task whose setup raised differs from what it returns for
\* a task that exhausted its attempts.
FailuresCarryReason ==
    \A t, u \in Tasks :
        /\ (pc[t] \in AfterLoop /\ get_result(results, t).code # 200) =>
              Get(get_result(results, t).body, "reason") \notin {NULL, ""}
        /\ (SetupError(t) /\ Exhausted(u)) =>
              get_result(results, t) # get_result(results, u)

\* What poll answers for id in a process started on the store d.
PollAfterRestart(d, id) == get_result(_load_results(d).results, id)

\* C12  Write-through durability: once a unit has ended, the terminal
\* entry it recorded is in the durable store: a process started on the
\* store as it is now answers a poll for that id as this one does, with the
\* same elapsed_time.
WriteThrough ==
    \A t \in Tasks :
        (pc[t] = "done" /\ Terminal(results[t])) =>
            /\ _load_results(disk).outcome = "dict"
            /\ PollAfterRestart(disk, t) = get_result(results, t)
            /\ _load_results(disk).elapsed_time[t] = elapsed_time[t]

\* The process exists and self.results is a dict.
Up == phase \in {"startup", "serving", "failed"}

\* C13  Persistence round-trip: for the ledger of every reachable state,
\* _save_results followed by _load_results in a fresh instance gives a dict
\* in which poll answers as before for every id (known, unknown or none),
\* every entry having the value and the elapsed_time it had.
RoundTrip ==
    Up =>
        LET l == _load_results(_save_results(disk, results, elapsed_time, "ok")) IN
        /\ l.outcome = "dict"
        /\ \A id \in PollIds : get_result(l.results, id) = get_result(results, id)
        /\ \A t \in Tasks : l.results[t] = results[t]
        /\ \A t \in Tasks : l.elapsed_time[t] = elapsed_time[t]

\* C13 witness: a process started on the results.json an earlier process
\* wrote holds two entries it did not record itself, one with the value None
\* and one with a token and an elapsed_time that is not 0.
RoundTripWitness ==
    /\ crashes = 1 /\ phase = "serving"
    /\ \E t, u \in Tasks :
          /\ pc[t] = "none" /\ results[t] = Dict(NULL)
          /\ pc[u] = "none" /\ results[u] = Dict(TOKEN) /\ elapsed_time[u] > 0

\* C14  Tolerant load: whatever results.json is, the construction of the
\* server returns and startup follows; unless the file is a JSON object the
\* ledger it starts with is the empty dict.
TolerantLoad ==
    [][(phase = "off" /\ phase' # "off") =>
          /\ phase' = "startup"
          /\ disk.state # "valid" => results' = Ledger0]_vars

\* A load of the store d gives a terminal entry for t.
Recoverable(d, t) ==
    _load_results(d).outcome = "dict" /\ Terminal(_load_results(d).results[t])

\* C15  Crash safety of the store: when the process ends, at whatever
\* point, every terminal entry a load of results.json gave before still
\* comes out of a load afterwards, unchanged.
CrashSafety ==
    [][(phase # "off" /\ phase' = "off") =>
          \A t \in Tasks :
              Recoverable(disk, t) =>
                  /\ Recoverable(disk', t)
                  /\ _load_results(disk').results[t] = _load_results(disk).results[t]]_vars

\* C16  No duplicate creation: a submit never creates an entry for an id
\* the ledger already has: while the process lives, an entry that is
\* terminal, loaded from the store or recorded by a unit, is not set back
\* to CAPTCHA_NOT_READY, and no unit is created for its id.
NoDuplicateCreation ==
    [][\A t \in Tasks :
          (Terminal(results[t]) /\ phase' # "off") =>
              /\ ~Pending(results'[t])
              /\ pc[t] \in {"none", "done"} => pc'[t] = pc[t]]_vars

\* C17  Poll is a pure read: a poll with no id or with an id the ledger
\* does not have is answered 400 with no entry; a poll for a known id is
\* answered with its current entry (202 processing while it is
\* CAPTCHA_NOT_READY); the ledger, the store, the pool, its getters, the
\* scheduled handles and every unit are left as they were.
PollPureRead ==
    [][(resp' # resp /\ resp'.op = "result") =>
          /\ UNCHANGED <<results, elapsed_time, disk, browser_pool, getters, ready,
                         nextId, pc, slot>>
          /\ IF resp'.id \notin Tasks
             THEN resp'.code = 400 /\ resp'.body = Absent
             ELSE /\ results[resp'.id] = Absent =>
                        (resp'.code = 400 /\ resp'.body = Absent)
                  /\ Pending(results[resp'.id]) =>
                        (resp'.code = 202 /\ resp'.body = Str("processing"))
                  /\ Terminal(results[resp'.id]) =>
                        (resp'.code \in {200, 422} /\ resp'.body = results[resp'.id])]_vars

\* C17 witness: a poll for a known id has been answered 200 with the entry
\* the ledger holds, while a unit holds the slot and another id is not in
\* the ledger.
PollPureReadWitness ==
    /\ resp.op = "result" /\ resp.id \in Tasks /\ resp.code = 200
    /\ resp.body = results[resp.id] /\ resp.body = Dict(TOKEN)
    /\ Cardinality(Held) = 1
    /\ \E t \in Tasks : results[t] = Absent

\* C18  Elapsed time covers queueing: the elapsed_time recorded with the
\* terminal entry of a task is the time from the instant its unit called
\* get() to the terminal write, the wait for a free slot included.
ElapsedCoversQueueing ==
    [][\A t \in Tasks :
          (Pending(results[t]) /\ Terminal(results'[t])) =>
              elapsed_time'[t] = now - entered[t]]_vars

\* C19  Startup capacity: until all N slots have been created and put in
\* the pool no request is served, no unit exists and no slot is held; a
\* unit holds a slot only when N slots were created; when a creation has
\* failed the application stays failed, with fewer than N slots and no
\* request served.
StartupCapacity ==
    /\ [](phase # "serving" =>
            /\ resp = NoResp /\ results = Ledger0
            /\ \A t \in Tasks : pc[t] = "none" /\ slot[t] = 0)
    /\ []((\E t \in Tasks : pc[t] # "none") => launched = thread_count)
    /\ [](phase = "serving" => launched = thread_count)
    /\ [](phase = "failed" => launched < thread_count /\ Len(browser_pool) = launched)
    /\ [][phase = "failed" => phase' = "failed"]_vars

\* C19 witness: with N = 2 the first creation succeeded and the second
\* failed: one slot is in the pool and the application does not serve.
StartupCapacityWitness ==
    /\ thread_count = 2 /\ phase = "failed"
    /\ launched = 1 /\ Len(browser_pool) = 1

\* The status of a task as poll shows it: 202 while it is processing, 200
\* for a result, 422 for CAPTCHA_FAIL.
TaskStatus(code) ==
    CASE code = 202 -> "PENDING"
      [] code = 200 -> "SUCCESS"
      [] code = 422 -> "FAILURE"
      [] OTHER -> "NONE"

\* C20  Field presence by status: a ledger entry, and what poll returns
\* for it, has a "value" only if the task's status is SUCCESS and a
\* "reason" only if it is FAILURE or ERROR; the result of a standalone
\* solve() has a turnstile_value only with status success and a reason only
\* with status failure.
FieldPresence ==
    /\ \A t \in Tasks :
          LET r == get_result(results, t) IN
          /\ Get(results[t], "value") # NULL => TaskStatus(r.code) = "SUCCESS"
          /\ Get(r.body, "value") # NULL => TaskStatus(r.code) = "SUCCESS"
          /\ Get(results[t], "reason") # NULL => TaskStatus(r.code) = "FAILURE"
          /\ Get(r.body, "reason") # NULL => TaskStatus(r.code) = "FAILURE"
    /\ g_pc = "return" =>
          /\ SolveResult(g_ret).turnstile_value # NULL =>
                SolveResult(g_ret).status = "success"
          /\ SolveResult(g_ret).reason # NULL => SolveResult(g_ret).status = "failure"

\* C21: an exception raised inside one iteration of the server's loop is
\* contained.  The call that raises leaves the unit in the loop, suspended
\* in the sleep of the except, with entry, slot and index untouched; when
\* that sleep is over the iteration has counted (one probe, index + 1) and
\* the unit is at the probe of the next iteration with its entry untouched
\* unless that was the tenth iteration; no unit makes more than 10 probes,
\* and a unit that met such an exception ends with the value of a later
\* non-empty probe or, after exactly 10 probes, with the entry of the check
\* that follows the loop.
TransientProbeErrors ==
    /\ [](\A t \in Tasks :
            /\ probes[t] <= MaxAttempts
            /\ pc[t] = "loop" =>
                   probes[t] = attempt[t] + (IF awaiting[t] = "eval_on_selector" THEN 0 ELSE 1)
            /\ (raised[t] /\ pc[t] \in AfterLoop) =>
                   \/ results[t] = Dict(TOKEN)
                   \/ results[t] = Dict(CAPTCHA_FAIL) /\ probes[t] = MaxAttempts)
    /\ [][\A t \in Tasks :
            /\ (/\ pc[t] = "loop"
                /\ \/ ~raised[t] /\ raised'[t] /\ awaiting[t] # "query_selector"
                   \/ awaiting[t] # "backoff" /\ awaiting'[t] = "backoff") =>
                   /\ pc'[t] = "loop" /\ awaiting'[t] = "backoff" /\ raised'[t]
                   /\ attempt'[t] = attempt[t]
                   /\ slot'[t] = slot[t] /\ results'[t] = results[t]
            /\ (pc[t] = "loop" /\ awaiting[t] = "backoff" /\ awaiting'[t] # "backoff") =>
                   /\ attempt'[t] = attempt[t] + 1
                   /\ slot'[t] = slot[t]
                   /\ IF attempt'[t] < MaxAttempts
                      THEN /\ pc'[t] = "loop" /\ awaiting'[t] = "eval_on_selector"
                           /\ results'[t] = results[t]
                      ELSE pc'[t] = "reset_goto" /\ results'[t] = Dict(CAPTCHA_FAIL)]_vars

\* A unit that met an exception in the loop and ended with a token.
TransientProbeErrorsWitness ==
    \E t \in Tasks : /\ pc[t] = "done" /\ raised[t] /\ probes[t] >= 2
                      /\ probes[t] < MaxAttempts /\ results[t] = Dict(TOKEN)

\* C22: an exception raised inside one iteration of _get_turnstile_response
\* is a transient failure of that iteration: a call that met one and is over
\* has not made solve() end with status "error".
TransientSolverErrors ==
    (g_fault /\ g_pc # "loop") => SolveOutcome(g_pc, g_ret).status # "error"

\* C23: an exception of page.route or of the first page.goto aborts the
\* unit: from the setup a unit goes on to the next setup call, to the loop,
\* or straight to the reset with CAPTCHA_FAIL recorded, holding its slot; a
\* unit that left the setup this way has one write, no probe and no click,
\* and once it is done it has put its slot back once.
SetupFailureAborts ==
    /\ [](\A t \in Tasks : SetupError(t) =>
            /\ results[t] = Dict(CAPTCHA_FAIL)
            /\ writes[t] = 1 /\ clicks[t] = 0 /\ empties[t] = 0
            /\ IF pc[t] = "done" THEN slot[t] = 0 /\ puts[t] = 1
                                 ELSE slot[t] # 0 /\ puts[t] = 0)
    /\ [][\A t \in Tasks :
            /\ (pc[t] = "route" /\ pc'[t] \notin {"route", "goto"}) => SetupError(t)'
            /\ (pc[t] = "goto" /\ pc'[t] \notin {"goto", "loop"}) => SetupError(t)'
            /\ (pc[t] \in {"route", "goto"} /\ SetupError(t)') =>
                   pc'[t] = "reset_goto" /\ Pending(results[t])]_vars

\* A unit aborted in its setup is done and another unit probes with the
\* slot it put back.
SetupFailureAbortsWitness ==
    \E t, u \in Tasks :
        /\ pc[t] = "done" /\ SetupError(t) /\ results[t] = Dict(CAPTCHA_FAIL) /\ puts[t] = 1
        /\ u # t /\ slot[u] # 0 /\ probes[u] > 0

\* C24: the outcome is in the ledger before the slot is back in the pool.
\* A unit whose entry is CAPTCHA_NOT_READY has put nothing, and if it has
\* acquired a slot it holds it and the slot is not in the pool; a unit that
\* has put its slot, or is done, has an entry a poll answers with 200 or 422;
\* and the step that puts the slot starts from such an entry.
RecordedBeforeRelease ==
    /\ [](\A t \in Tasks :
            /\ Pending(results[t]) =>
                   /\ puts[t] = 0 /\ pc[t] # "done"
                   /\ t \in InFlight => (slot[t] # 0 /\ ~InSeq(slot[t], browser_pool))
            /\ (puts[t] >= 1 \/ pc[t] = "done") =>
                   get_result(results, t).code \in {200, 422})
    /\ [][\A t \in Tasks :
            puts'[t] > puts[t] =>
               /\ Terminal(results[t]) /\ results'[t] = results[t]
               /\ InSeq(slot[t], browser_pool') /\ ~InSeq(slot[t], browser_pool)]_vars

\* A unit that holds its slot, with the reset still to finish, while a poll
\* of its id already gets 200.
RecordedBeforeReleaseWitness ==
    \E t \in Tasks : /\ pc[t] = "reset_eval" /\ slot[t] # 0 /\ puts[t] = 0
                      /\ ~InSeq(slot[t], browser_pool)
                      /\ get_result(results, t).code = 200

\* C25, as stated: the slot is released first and the entry becomes terminal
\* afterwards, so whenever a poll of a task gets 200 or 422 the unit has
\* already put its slot back and holds nothing.
ReleaseBeforeCompletion ==
    \A t \in Tasks :
        get_result(results, t).code \in {200, 422} => (slot[t] = 0 /\ puts[t] >= 1)

\* C25, amended: the entry becomes terminal first, in a step of a unit that
\* holds its slot and keeps it out of the pool, and the slot is put back
\* afterwards; whenever the slot that served a task has been put back, a
\* poll of the task gets 200 or 422.
CompletionBeforeRelease ==
    /\ [][\A t \in Tasks :
            (Pending(results[t]) /\ Terminal(results'[t])) =>
               /\ slot[t] # 0 /\ slot'[t] = slot[t] /\ puts'[t] = 0
               /\ ~InSeq(slot[t], browser_pool') /\ pc'[t] # "done"]_vars
    /\ [](\A t \in Tasks :
            (puts[t] >= 1 \/ (pc[t] = "done" /\ slot[t] = 0)) =>
               get_result(results, t).code \in {200, 422})

\* A poll of a task gets 422 while its unit still holds the slot, the reset
\* not yet started, and another unit waits for that slot.
CompletionBeforeReleaseWitness ==
    \E t, u \in Tasks :
        /\ pc[t] = "reset_goto" /\ slot[t] # 0 /\ puts[t] = 0
        /\ get_result(results, t).code = 422
        /\ pc[u] = "waiting" /\ browser_pool = <<>>

\* C26: the reset comes before the release and its failure is swallowed.
\* A unit leaves the setup or the loop only into the reset (never straight
\* to its end), and ends only from one of the two reset calls, in a step
\* that puts its slot into the pool; no step of the reset changes the
\* unit's entry; and a unit whose reset raised is done, has put its slot
\* once, holds nothing and has a terminal entry.
ResetBeforeRelease ==
    /\ [][\A t \in Tasks :
            /\ (pc[t] \in {"route", "goto", "loop"} /\ pc'[t] # pc[t]) =>
                   (pc'[t] \in {"goto", "loop", "reset_goto"} /\ puts'[t] = 0)
            /\ (pc[t] # "done" /\ pc'[t] = "done") =>
                   /\ pc[t] \in {"reset_goto", "reset_eval"}
                   /\ puts'[t] = puts[t] + 1
                   /\ InSeq(slot[t], browser_pool') /\ slot'[t] = 0
            /\ pc[t] \in {"reset_goto", "reset_eval"} => results'[t] = results[t]
            /\ (~resetFailed[t] /\ resetFailed'[t]) => pc'[t] = "done"]_vars
    /\ [](\A t \in Tasks :
            resetFailed[t] => /\ pc[t] = "done" /\ puts[t] = 1 /\ slot[t] = 0
                              /\ Terminal(results[t]))

\* The reset raised for a unit that had a token and for a unit aborted in
\* its setup; both are done and the pool has its slot.
ResetBeforeReleaseWitness ==
    \E t, u \in Tasks :
        /\ resetFailed[t] /\ results[t] = Dict(TOKEN) /\ pc[t] = "done"
        /\ resetFailed[u] /\ SetupError(u) /\ pc[u] = "done"
        /\ Len(browser_pool) = thread_count

\* C27: a rewrite of results.json is one snapshot of the ledger.  Whatever
\* units and submits are interleaved, a step that changes the file leaves
\* in it the dump of the whole ledger as it is at the end of that step:
\* the entry just recorded together with every other unit's entry, none of
\* them from an earlier or a later state.
SnapshotRewrite ==
    [][disk' # disk =>
          /\ disk' = File("valid", json_dump(results', elapsed_time'))
          /\ \E t \in Tasks :
                /\ pc[t] = "loop" /\ awaiting[t] = "get_attribute"
                /\ Pending(results[t]) /\ Terminal(results'[t])
                /\ \A u \in Tasks \ {t} : results'[u] = results[u]]_vars

\* The file holds a recorded entry and, as strings, the entries of two
\* units that are probing at that moment, each with its own slot.
SnapshotRewriteWitness ==
    \E t, u, w \in Tasks :
        /\ u # w /\ pc[u] = "loop" /\ pc[w] = "loop"
        /\ disk.state = "valid"
        /\ disk.data[t].j = "object"
        /\ disk.data[u] = JEntryString(NOT_READY)
        /\ disk.data[w] = JEntryString(NOT_READY)

\* C28: every id a poll reports as processing has a live unit that will
\* record its outcome: while the server is up, an entry CAPTCHA_NOT_READY
\* belongs to a unit that is scheduled, waiting for a slot, or working.
NoOrphanedPending ==
    \A t \in Tasks :
        (Up /\ get_result(results, t).code = 202) => Incomplete(t)

\* C29: a task recorded as solved has a token: whenever a poll of a task is
\* answered 200, the member "value" of the body is a non-empty string,
\* neither None nor "".
SuccessHasToken ==
    \A t \in Tasks :
        get_result(results, t).code = 200 =>
            Get(get_result(results, t).body, "value") \notin {NULL, ""}

\* C30: the answer of a poll follows the entry of the id at that moment:
\* 400 exactly for no id, an unknown id or an id without entry; 202 with
\* "processing" exactly for the entry CAPTCHA_NOT_READY; 422 exactly for a
\* recorded CAPTCHA_FAIL; 200 exactly for any other recorded entry, with
\* the entry as body.  So a task whose unit has not recorded yet is always
\* answered 202, and a task whose unit is past its loop 200 or 422.
PollStatusMapping ==
    [][(resp'.op = "result" /\ resp' # resp) =>
          LET id == resp'.id
              c == resp'.code
              known == id \in Tasks /\ results[id] # Absent
          IN /\ c \in {400, 202, 422, 200}
             /\ (c = 400) <=> ~known
             /\ (c = 202) <=> (known /\ Pending(results[id]))
             /\ (c = 422) <=> (known /\ results[id] = Dict(CAPTCHA_FAIL))
             /\ (c = 200) <=> (known /\ Terminal(results[id])
                                     /\ results[id].value # CAPTCHA_FAIL)
             /\ (c = 202) => resp'.body = Str("processing")
             /\ (c \in {200, 422}) => resp'.body = results[id]
             /\ (id \in Tasks /\ Incomplete(id)) => c = 202
             /\ (id \in Tasks /\ pc[id] \in AfterLoop) => c \in {200, 422}]_vars

\* A poll has just been answered 422 for a task whose unit recorded
\* CAPTCHA_FAIL, while another task is still probing.
PollStatusMappingWitness ==
    \E t, u \in Tasks :
        /\ resp.op = "result" /\ resp.id = t /\ resp.code = 422
        /\ results[t] = Dict(CAPTCHA_FAIL)
        /\ pc[u] = "loop" /\ Pending(results[u])

\* C31: when page setup or probing raises inside solve(), the result
\* returned has status "error" and its reason is the message of that
\* exception.
ErrorReasonIsCause ==
    (s_pc = "done" /\ original \in {"setup", "probe"}) =>
        /\ returned.kind = "returns"
        /\ returned.value.status = "error"
        /\ returned.value.reason = original

\* C32: solve() is total: whatever browser_type the solver was built with
\* and whatever the engine calls do, a call that is over has returned a
\* TurnstileResult of status success, failure or error and has raised
\* nothing to its caller.
SolveIsTotal ==
    s_pc = "done" =>
        /\ returned.kind = "returns"
        /\ returned.value.status \in {"success", "failure", "error"}

\* C33: when solve() is over, everything it started (driver, browser,
\* context) is closed, whichever way it ended.
NoLeakedBrowser ==
    s_pc = "done" => opened = {}

\* C34: a released session carries no per-task state: the page of a slot
\* that is in the pool has no route handler of a finished unit left on it,
\* and the page of no slot ever has more than one handler.
ReleasedSessionIsClean ==
    \A s \in 1..thread_count :
        /\ InSeq(s, browser_pool) => routes[s] = <<>>
        /\ Len(routes[s]) <= 1
====
